---- MODULE Spec2Model ----
(***************************************************************************)
(* A model of the reverse-mode automatic differentiation engine:           *)
(*   operations.py  the operation classes (forward / backward rules)       *)
(*   value.py       the Value node, its construction methods and backward  *)
(*                                                                         *)
(* Objects are the entries of the sequence `nodes`; an index into it is    *)
(* the identity (id) of a Value.  Numbers are exact reals: a rational is   *)
(* [k |-> "q", n, d] in lowest terms, any other real (log 2, sin 1, a      *)
(* complex power ...) is a term [k |-> "t", f, a] over such numbers.       *)
(* IEEE-754 rounding, overflow, inf and nan are not modelled.              *)
(***************************************************************************)
EXTENDS Integers, Sequences, FiniteSets, TLC

VARIABLES nodes, err, last, trace, calls, threads, sched

vars == <<nodes, err, last, trace, calls, threads, sched>>

(***************************************************************************)
(* Bounds of the model                                                     *)
(***************************************************************************)
MaxNodes == 4
MaxCalls == 2
MaxNodesOps == 3
MaxCallsOps == 1
MaxPow == 4
MaxGrad == 2
MaxNodesLabels == 3
MaxCallsLabels == 2
MaxNodesThreads == 3

(***************************************************************************)
(* Numbers                                                                 *)
(***************************************************************************)
Abs(x) == IF x < 0 THEN -x ELSE x

RECURSIVE Gcd(_, _)
Gcd(a, b) == IF b = 0 THEN a ELSE Gcd(b, a % b)

\* the rational n/d (d # 0) in lowest terms with a positive denominator
Rat(n, d) ==
    LET g == Gcd(Abs(n), Abs(d))
        s == IF d < 0 THEN -1 ELSE 1
    IN  [k |-> "q", n |-> (s * n) \div g, d |-> (s * d) \div g]

Num(i) == Rat(i, 1)
Term(f, a) == [k |-> "t", f |-> f, a |-> a]
\* float + and * are commutative: the operands of such a term are unordered
\* (a single element stands for x + x, x * x)
CommTerm(f, x, y) == [k |-> "t", f |-> f, s |-> {x, y}]

IsRat(x) == x.k = "q"
IsZero(x) == IsRat(x) /\ x.n = 0
IsOne(x) == IsRat(x) /\ x.n = 1 /\ x.d = 1

\* a > 0, a <= 0 on rationals (the comparisons of operations.py are only
\* ever evaluated on rational operands in this model)
Positive(x) == x.n > 0

NumNeg(x) ==
    IF IsRat(x) THEN Rat(-x.n, x.d)
    ELSE IF x.f = "neg" THEN x.a[1]
    ELSE Term("neg", <<x>>)

NumAdd(x, y) ==
    IF IsRat(x) /\ IsRat(y) THEN Rat(x.n * y.d + y.n * x.d, x.d * y.d)
    ELSE IF IsZero(x) THEN y
    ELSE IF IsZero(y) THEN x
    ELSE CommTerm("+", x, y)

NumSub(x, y) ==
    IF IsRat(x) /\ IsRat(y) THEN Rat(x.n * y.d - y.n * x.d, x.d * y.d)
    ELSE IF IsZero(y) THEN x
    ELSE IF IsZero(x) THEN NumNeg(y)
    ELSE Term("-", <<x, y>>)

NumMul(x, y) ==
    IF IsRat(x) /\ IsRat(y) THEN Rat(x.n * y.n, x.d * y.d)
    ELSE IF IsZero(x) \/ IsZero(y) THEN Num(0)
    ELSE IF IsOne(x) THEN y
    ELSE IF IsOne(y) THEN x
    ELSE CommTerm("*", x, y)

\* x / y for y # 0
NumDiv(x, y) ==
    IF IsRat(x) /\ IsRat(y) THEN Rat(x.n * y.d, x.d * y.n)
    ELSE IF IsZero(x) THEN Num(0)
    ELSE IF IsOne(y) THEN x
    ELSE Term("/", <<x, y>>)

RECURSIVE IntPow(_, _)
IntPow(b, e) == IF e = 0 THEN 1 ELSE b * IntPow(b, e - 1)

\* the s-th root of p >= 1 when it is an integer, else 0
IntRoot(p, s) ==
    LET R == {r \in 1..p : IntPow(r, s) = p}
    IN  IF R = {} THEN 0 ELSE CHOOSE r \in R : TRUE

\* a ** e for a rational a # 0 and an integer e
RatPowInt(a, e) ==
    IF e >= 0 THEN Rat(IntPow(a.n, e), IntPow(a.d, e))
    ELSE Rat(IntPow(a.d, -e), IntPow(a.n, -e))

\* Python's float a ** b raises ZeroDivisionError for 0.0 ** negative
PowRaises(a, b) == IsZero(a) /\ IsRat(b) /\ b.n < 0

\* a ** b where it does not raise
NumPow(a, b) ==
    IF ~(IsRat(a) /\ IsRat(b)) THEN Term("pow", <<a, b>>)
    ELSE IF b.n = 0 THEN Num(1)
    ELSE IF a.n = 0 THEN Num(0)
    ELSE IF b.d = 1 THEN RatPowInt(a, b.n)
    ELSE IF a.n < 0 THEN Term("pow", <<a, b>>)
    ELSE LET rn == IntRoot(a.n, b.d)
             rd == IntRoot(a.d, b.d)
         IN  IF rn = 0 \/ rd = 0 THEN Term("pow", <<a, b>>)
             ELSE RatPowInt(Rat(rn, rd), b.n)

\* math.exp, math.sin, ... : exact where the result is rational
MathFn(f, x) ==
    IF ~IsRat(x) THEN Term(f, <<x>>)
    ELSE IF f = "log" THEN (IF IsOne(x) THEN Num(0) ELSE Term(f, <<x>>))
    ELSE IF ~IsZero(x) THEN Term(f, <<x>>)
    ELSE IF f \in {"exp", "cos", "cosh"} THEN Num(1)
    ELSE Num(0)

\* mutant: only a negative argument is rejected
LogRaises_negative(x) == IsRat(x) /\ x.n < 0

\* math.log raises ValueError ("math domain error") on x <= 0
LogRaises(x) == IsRat(x) /\ x.n <= 0

(***************************************************************************)
(* operations.py: the result of a rule is [exc, v]; exc = "none" when it   *)
(* returns v, otherwise the name of the exception it raises.               *)
(***************************************************************************)
Ok(v) == [exc |-> "none", v |-> v]
Raise(e) == [exc |-> e, v |-> <<>>]

\* Python's float division
TrueDiv(x, y) == IF IsZero(y) THEN Raise("ZeroDivisionError") ELSE Ok(NumDiv(x, y))

\* Python's float power
FloatPow(a, b) == IF PowRaises(a, b) THEN Raise("ZeroDivisionError") ELSE Ok(NumPow(a, b))

Add_forward(a, b) == Ok(NumAdd(a, b))
Add_backward(g, a, b) == Ok(<<g, g>>)

Mul_forward(a, b) == Ok(NumMul(a, b))
\* mutant: each operand receives its own value instead of the other's
Mul_backward_own(g, a, b) == Ok(<<NumMul(g, a), NumMul(g, b)>>)
Mul_backward(g, a, b) == Ok(<<NumMul(g, b), NumMul(g, a)>>)

Neg_forward(a) == Ok(NumNeg(a))
Neg_backward(g, a) == Ok(<<NumNeg(g)>>)

Sub_forward(a, b) == Ok(NumSub(a, b))
Sub_backward(g, a, b) == Ok(<<g, NumNeg(g)>>)

Div_forward(a, b) == TrueDiv(a, b)
Div_backward(g, a, b) ==
    LET da == TrueDiv(g, b)
        db == TrueDiv(NumMul(NumNeg(g), a), NumMul(b, b))
    IN  IF da.exc # "none" THEN da
        ELSE IF db.exc # "none" THEN db
        ELSE Ok(<<da.v, db.v>>)

Pow_forward(a, b) == FloatPow(a, b)
Pow_backward(g, a, b) ==
    LET p1 == FloatPow(a, NumSub(b, Num(1)))
        p2 == FloatPow(a, b)
    IN  IF p1.exc # "none" THEN p1
        ELSE IF ~Positive(a) THEN Ok(<<NumMul(NumMul(g, b), p1.v), Num(0)>>)
        ELSE IF p2.exc # "none" THEN p2
        ELSE Ok(<<NumMul(NumMul(g, b), p1.v),
                  NumMul(NumMul(g, p2.v), MathFn("log", a))>>)

Exp_forward(x) == Ok(MathFn("exp", x))
Exp_backward(g, x) == Ok(<<NumMul(g, MathFn("exp", x))>>)

Log_forward(x) == IF LogRaises(x) THEN Raise("ValueError") ELSE Ok(MathFn("log", x))
Log_backward(g, x) ==
    LET q == TrueDiv(g, x)
    IN  IF q.exc # "none" THEN q ELSE Ok(<<q.v>>)

Sin_forward(x) == Ok(MathFn("sin", x))
Sin_backward(g, x) == Ok(<<NumMul(g, MathFn("cos", x))>>)

Cos_forward(x) == Ok(MathFn("cos", x))
Cos_backward(g, x) == Ok(<<NumMul(NumNeg(g), MathFn("sin", x))>>)

Tan_forward(x) == Ok(MathFn("tan", x))
Tan_backward(g, x) ==
    LET q == TrueDiv(g, NumPow(MathFn("cos", x), Num(2)))
    IN  IF q.exc # "none" THEN q ELSE Ok(<<q.v>>)

Cot_forward(x) == TrueDiv(Num(1), MathFn("tan", x))
Cot_backward(g, x) ==
    LET q == TrueDiv(NumNeg(g), NumPow(MathFn("sin", x), Num(2)))
    IN  IF q.exc # "none" THEN q ELSE Ok(<<q.v>>)

Sinh_forward(x) == Ok(MathFn("sinh", x))
Sinh_backward(g, x) == Ok(<<NumMul(g, MathFn("cosh", x))>>)

Cosh_forward(x) == Ok(MathFn("cosh", x))
Cosh_backward(g, x) == Ok(<<NumMul(g, MathFn("sinh", x))>>)

Tanh_forward(x) == Ok(MathFn("tanh", x))
Tanh_backward(g, x) ==
    Ok(<<NumMul(g, NumSub(Num(1), NumPow(MathFn("tanh", x), Num(2))))>>)

Coth_forward(x) == TrueDiv(Num(1), MathFn("tanh", x))
Coth_backward(g, x) ==
    LET q == TrueDiv(NumNeg(g), NumPow(MathFn("sinh", x), Num(2)))
    IN  IF q.exc # "none" THEN q ELSE Ok(<<q.v>>)

BinaryOps == {"Add", "Mul", "Sub", "Div", "Pow"}
UnaryOps == {"Neg", "Exp", "Log", "Sin", "Cos", "Tan", "Cot", "Sinh", "Cosh", "Tanh", "Coth"}

\* op.forward(*inputs): dispatch on the class of op
Forward(op, in) ==
    CASE op = "Add" -> Add_forward(in[1], in[2])
      [] op = "Mul" -> Mul_forward(in[1], in[2])
      [] op = "Sub" -> Sub_forward(in[1], in[2])
      [] op = "Div" -> Div_forward(in[1], in[2])
      [] op = "Pow" -> Pow_forward(in[1], in[2])
      [] op = "Neg" -> Neg_forward(in[1])
      [] op = "Exp" -> Exp_forward(in[1])
      [] op = "Log" -> Log_forward(in[1])
      [] op = "Sin" -> Sin_forward(in[1])
      [] op = "Cos" -> Cos_forward(in[1])
      [] op = "Tan" -> Tan_forward(in[1])
      [] op = "Cot" -> Cot_forward(in[1])
      [] op = "Sinh" -> Sinh_forward(in[1])
      [] op = "Cosh" -> Cosh_forward(in[1])
      [] op = "Tanh" -> Tanh_forward(in[1])
      [] op = "Coth" -> Coth_forward(in[1])

\* op.backward(output_grad, *inputs): dispatch on the class of op
Backward(op, g, in) ==
    CASE op = "Add" -> Add_backward(g, in[1], in[2])
      [] op = "Mul" -> Mul_backward(g, in[1], in[2])
      [] op = "Sub" -> Sub_backward(g, in[1], in[2])
      [] op = "Div" -> Div_backward(g, in[1], in[2])
      [] op = "Pow" -> Pow_backward(g, in[1], in[2])
      [] op = "Neg" -> Neg_backward(g, in[1])
      [] op = "Exp" -> Exp_backward(g, in[1])
      [] op = "Log" -> Log_backward(g, in[1])
      [] op = "Sin" -> Sin_backward(g, in[1])
      [] op = "Cos" -> Cos_backward(g, in[1])
      [] op = "Tan" -> Tan_backward(g, in[1])
      [] op = "Cot" -> Cot_backward(g, in[1])
      [] op = "Sinh" -> Sinh_backward(g, in[1])
      [] op = "Cosh" -> Cosh_backward(g, in[1])
      [] op = "Tanh" -> Tanh_backward(g, in[1])
      [] op = "Coth" -> Coth_backward(g, in[1])

(***************************************************************************)
(* value.py: the Value node and its construction methods                   *)
(***************************************************************************)
None == "None"

\* Value.__init__: grad starts at 0.0; _backward defaults to a no-op
Value(value, prev, op, label) ==
    [value |-> value, grad |-> Num(0), op |-> op, prev |-> prev, label |-> label]

\* What a caller can write as the other operand of a binary operator:
\* a Value (by identity), a number, a string or None.
NodeOperand(i) == [k |-> "node", i |-> i]
NumOperand(c) == [k |-> "num", v |-> c]
StrOperand(s) == [k |-> "str", v |-> s]
NoneOperand == [k |-> "none"]

\* the strings of the model that float() parses, with their values
NumericStrings == [s \in {"2"} |-> 2]

\* mutant: an operand that is not a number counts as 0.0
FloatOf_lenient(o) ==
    IF o.k = "num" THEN Ok(Num(o.v)) ELSE Ok(Num(0))

\* float(other) for an operand that is not a Value
FloatOf(o) ==
    CASE o.k = "num" -> Ok(Num(o.v))
      [] o.k = "str" -> IF o.v \in DOMAIN NumericStrings
                        THEN Ok(Num(NumericStrings[o.v]))
                        ELSE Raise("ValueError")
      [] o.k = "none" -> Raise("TypeError")

BinaryMethods ==
    {"__add__", "__radd__", "__mul__", "__rmul__", "__sub__", "__rsub__",
     "__truediv__", "__rtruediv__", "__pow__", "__rpow__"}
UnaryMethods ==
    {"__neg__", "exp", "log", "sin", "cos", "tan", "cot", "sinh", "cosh", "tanh", "coth"}

\* the Operation each method instantiates
OpOf(m) ==
    CASE m \in {"__add__", "__radd__"} -> "Add"
      [] m \in {"__mul__", "__rmul__"} -> "Mul"
      [] m \in {"__sub__", "__rsub__"} -> "Sub"
      [] m \in {"__truediv__", "__rtruediv__"} -> "Div"
      [] m \in {"__pow__", "__rpow__"} -> "Pow"
      [] m = "__neg__" -> "Neg"
      [] m = "exp" -> "Exp"
      [] m = "log" -> "Log"
      [] m = "sin" -> "Sin"
      [] m = "cos" -> "Cos"
      [] m = "tan" -> "Tan"
      [] m = "cot" -> "Cot"
      [] m = "sinh" -> "Sinh"
      [] m = "cosh" -> "Cosh"
      [] m = "tanh" -> "Tanh"
      [] m = "coth" -> "Coth"

\* mutant: every reflected method delegates to the plain one
OperandOrder_self_first(m, self, other) == <<self, other>>

\* prev of the node a binary method builds: __rsub__, __rtruediv__ and
\* __rpow__ put other first; __radd__ and __rmul__ delegate to __add__ and
\* __mul__, which put self first.
OperandOrder(m, self, other) ==
    IF m \in {"__rsub__", "__rtruediv__", "__rpow__"}
    THEN <<other, self>>
    ELSE <<self, other>>

\* The outcome of a construction call: the arena after it, the exception it
\* raised ("none" if it returned) and the identity of the node it returned
\* (0 if it raised).
Returned(ns) == [nodes |-> ns, exc |-> "none", result |-> Len(ns)]
Raised(ns, e) == [nodes |-> ns, exc |-> e, result |-> 0]

\* self.<m>(other) for a binary method m.  A leaf wrapped around a literal is
\* referenced only by the call's local variable, so when forward raises it is
\* unreachable and the arena is as before the call.
Value_binary(ns, m, self, o) ==
    LET conv == IF o.k = "node" THEN Ok(<<>>) ELSE FloatOf(o)
    IN  IF conv.exc # "none" THEN Raised(ns, conv.exc)
        ELSE
        LET ns1 == IF o.k = "node" THEN ns
                   ELSE Append(ns, Value(conv.v, <<>>, None, None))
            other == IF o.k = "node" THEN o.i ELSE Len(ns1)
            prev == OperandOrder(m, self, other)
            fwd == Forward(OpOf(m), <<ns1[prev[1]].value, ns1[prev[2]].value>>)
        IN  IF fwd.exc # "none" THEN Raised(ns, fwd.exc)
            ELSE Returned(Append(ns1, Value(fwd.v, prev, OpOf(m), None)))

\* mutant: the node is built first and the failure of forward is swallowed
Value_unary_swallow(ns, m, self) ==
    LET fwd == Forward(OpOf(m), <<ns[self].value>>)
    IN  IF fwd.exc # "none"
        THEN Returned(Append(ns, Value(Num(0), <<self>>, OpOf(m), None)))
        ELSE Returned(Append(ns, Value(fwd.v, <<self>>, OpOf(m), None)))

\* mutant: the result does not record its operand
Value_unary_detached(ns, m, self) ==
    LET fwd == Forward(OpOf(m), <<ns[self].value>>)
    IN  IF fwd.exc # "none" THEN Raised(ns, fwd.exc)
        ELSE Returned(Append(ns, Value(fwd.v, <<>>, OpOf(m), None)))

\* self.<m>() for a unary method m
Value_unary(ns, m, self) ==
    LET fwd == Forward(OpOf(m), <<ns[self].value>>)
    IN  IF fwd.exc # "none" THEN Raised(ns, fwd.exc)
        ELSE Returned(Append(ns, Value(fwd.v, <<self>>, OpOf(m), None)))

(***************************************************************************)
(* value.py: Value.backward                                                *)
(***************************************************************************)
RECURSIVE build_topo_revisit(_, _, _)
RECURSIVE visit_parents_revisit(_, _, _, _)
\* mutant: no visited check, a node is placed once per path that reaches it
build_topo_revisit(ns, v, st) ==
    [visit_parents_revisit(ns, ns[v].prev, 1, st) EXCEPT !.topo = Append(@, v)]
visit_parents_revisit(ns, prev, k, st) ==
    IF k > Len(prev) THEN st
    ELSE visit_parents_revisit(ns, prev, k + 1, build_topo_revisit(ns, prev[k], st))

RECURSIVE build_topo(_, _, _)
RECURSIVE visit_parents(_, _, _, _)

\* build_topo(v) with st = [topo, visited]
build_topo(ns, v, st) ==
    IF v \in st.visited THEN st
    ELSE LET s1 == [st EXCEPT !.visited = @ \cup {v}]
             s2 == visit_parents(ns, ns[v].prev, 1, s1)
         IN  [s2 EXCEPT !.topo = Append(@, v)]

\* for parent in v.prev: build_topo(parent)
visit_parents(ns, prev, k, st) ==
    IF k > Len(prev) THEN st
    ELSE visit_parents(ns, prev, k + 1, build_topo(ns, prev[k], st))

RECURSIVE build_topo_preorder(_, _, _)
RECURSIVE visit_parents_preorder(_, _, _, _)
\* mutant: a node is appended when it is first visited, before its operands
build_topo_preorder(ns, v, st) ==
    IF v \in st.visited THEN st
    ELSE visit_parents_preorder(ns, ns[v].prev, 1,
            [visited |-> st.visited \cup {v}, topo |-> Append(st.topo, v)])
visit_parents_preorder(ns, prev, k, st) ==
    IF k > Len(prev) THEN st
    ELSE visit_parents_preorder(ns, prev, k + 1, build_topo_preorder(ns, prev[k], st))
\* mutant: the order walked is the pre-order, root first
TopoOrder_preorder(ns, root) ==
    LET t == build_topo_preorder(ns, root, [topo |-> <<>>, visited |-> {}]).topo
    IN  [k \in 1..Len(t) |-> t[Len(t) + 1 - k]]

\* topo after build_topo(self)
TopoOrder(ns, root) == build_topo(ns, root, [topo |-> <<>>, visited |-> {}]).topo

RECURSIVE reset_grads_none(_, _, _)
\* mutant: the loop visits the nodes but leaves their grad as it is
reset_grads_none(st, topo, k) ==
    IF k > Len(topo) THEN st
    ELSE reset_grads_none(
           [st EXCEPT !.trace = Append(@, [e |-> "reset", n |-> topo[k],
                                           old |-> st.nodes[topo[k]].grad])],
           topo, k + 1)

RECURSIVE reset_grads_leaves(_, _, _)
\* mutant: only the nodes without an operation are reset
reset_grads_leaves(st, topo, k) ==
    IF k > Len(topo) THEN st
    ELSE reset_grads_leaves(
           [st EXCEPT !.nodes[topo[k]].grad =
                         IF st.nodes[topo[k]].op = None THEN Num(0) ELSE @,
                      !.trace = Append(@, [e |-> "reset", n |-> topo[k],
                                           old |-> st.nodes[topo[k]].grad])],
           topo, k + 1)

RECURSIVE reset_grads_arena(_, _, _)
\* mutant: after the loop, the grad of every node of the arena is 0.0
reset_grads_arena(st, topo, k) ==
    IF k > Len(topo)
    THEN [st EXCEPT !.nodes = [n \in DOMAIN st.nodes |->
                                 [st.nodes[n] EXCEPT !.grad = Num(0)]]]
    ELSE reset_grads_arena(
           [st EXCEPT !.trace = Append(@, [e |-> "reset", n |-> topo[k],
                                           old |-> st.nodes[topo[k]].grad])],
           topo, k + 1)

RECURSIVE reset_grads(_, _, _)
\* for node in topo: node.grad = 0.0     (st = [nodes, exc, trace])
reset_grads(st, topo, k) ==
    IF k > Len(topo) THEN st
    ELSE reset_grads(
           [st EXCEPT !.nodes[topo[k]].grad = Num(0),
                      !.trace = Append(@, [e |-> "reset", n |-> topo[k],
                                           old |-> st.nodes[topo[k]].grad])],
           topo, k + 1)

\* self.grad = 1.0
seed(st, root) ==
    [st EXCEPT !.nodes[root].grad = Num(1),
               !.trace = Append(@, [e |-> "seed", n |-> root])]

RECURSIVE accumulate_overwrite(_, _, _, _, _)
\* mutant: parent.grad = grad
accumulate_overwrite(st, v, prev, grads, k) ==
    IF k > Len(prev) \/ k > Len(grads) THEN st
    ELSE accumulate_overwrite(
           [st EXCEPT !.nodes[prev[k]].grad = grads[k],
                      !.trace = Append(@, [e |-> "add", n |-> prev[k], from |-> v])],
           v, prev, grads, k + 1)

RECURSIVE accumulate_crossed(_, _, _, _, _)
\* mutant: the contributions are handed to the operands in reverse order
accumulate_crossed(st, v, prev, grads, k) ==
    IF k > Len(prev) \/ k > Len(grads) THEN st
    ELSE accumulate_crossed(
           [st EXCEPT !.nodes[prev[k]].grad = NumAdd(@, grads[Len(grads) + 1 - k]),
                      !.trace = Append(@, [e |-> "add", n |-> prev[k], from |-> v])],
           v, prev, grads, k + 1)

RECURSIVE accumulate(_, _, _, _, _)
\* for parent, grad in zip(v.prev, grads): parent.grad += grad
accumulate(st, v, prev, grads, k) ==
    IF k > Len(prev) \/ k > Len(grads) THEN st
    ELSE accumulate(
           [st EXCEPT !.nodes[prev[k]].grad = NumAdd(@, grads[k]),
                      !.trace = Append(@, [e |-> "add", n |-> prev[k], from |-> v])],
           v, prev, grads, k + 1)

\* the body of the reverse loop for one node v; v._backward() is the no-op
\* that __init__ installs (no construction method passes another)
propagate(st, v) ==
    LET nd == st.nodes[v]
    IN  IF nd.op # None /\ nd.prev # <<>>
        THEN LET res == Backward(nd.op, nd.grad,
                                 [k \in DOMAIN nd.prev |-> st.nodes[nd.prev[k]].value])
                 st1 == [st EXCEPT !.trace = Append(@, [e |-> "read", n |-> v])]
             IN  IF res.exc # "none" THEN [st1 EXCEPT !.exc = res.exc]
                 ELSE accumulate(st1, v, nd.prev, res.v, 1)
        ELSE st

RECURSIVE walk(_, _, _)
\* for v in reversed(topo): ...   (an exception ends the call)
walk(st, topo, k) ==
    IF k = 0 \/ st.exc # "none" THEN st
    ELSE walk(propagate(st, topo[k]), topo, k - 1)

\* root.backward(): [nodes, exc, trace] when the call returns or raises
Value_backward(ns, root) ==
    LET topo == TopoOrder(ns, root)
        st0 == [nodes |-> ns, exc |-> "none", trace |-> <<>>]
    IN  walk(seed(reset_grads(st0, topo, 1), root), topo, Len(topo))

(***************************************************************************)
(* The host program: one action per call it can make.  N bounds the number *)
(* of live nodes and C the number of backward() calls.                     *)
(***************************************************************************)
\* `last` describes the most recent call: the method, the node it was called
\* on, its other operand, the node it returned (0 if none), and whether it is
\* a backward() that directly follows a backward() on the same node.
Call(api, self, other, result, again) ==
    [api |-> api, self |-> self, other |-> other, result |-> result, again |-> again]

NoCall == Call("none", 0, NoneOperand, 0, FALSE)

Init ==
    /\ nodes = <<>>
    /\ err = "none"
    /\ last = NoCall
    /\ trace = <<>>
    /\ calls = <<>>
    /\ threads = <<>>
    /\ sched = <<>>

\* x = Value(v)
NewLeaf(N, v) ==
    /\ Len(nodes) < N
    /\ nodes' = Append(nodes, Value(Num(v), <<>>, None, None))
    /\ err' = "none"
    /\ last' = Call("Value", 0, NoneOperand, Len(nodes) + 1, FALSE)
    /\ UNCHANGED <<trace, calls, threads, sched>>

\* The operands whose value a forward rule divides by, raises to a power or
\* passes to the math module are explored at rational values only, and the
\* base and exponent of a power at rationals of at most MaxPow in numerator
\* and denominator (the result stays far from the float range).
ExactOperands(ns, m, self, o) ==
    LET exact(i) == IsRat(ns[i].value)
        small(i) == /\ exact(i)
                    /\ Abs(ns[i].value.n) <= MaxPow
                    /\ ns[i].value.d <= MaxPow
    IN  CASE OpOf(m) \in {"Add", "Mul", "Sub", "Neg"} -> TRUE
          [] OpOf(m) = "Div" ->
                IF m = "__rtruediv__" THEN exact(self)
                ELSE o.k = "node" => exact(o.i)
          [] OpOf(m) = "Pow" -> small(self) /\ (o.k = "node" => small(o.i))
          [] OTHER -> exact(self)

\* nodes[i].<m>()
Unary(N, m, i) ==
    /\ Len(nodes) < N
    /\ ExactOperands(nodes, m, i, NoneOperand)
    /\ \E res \in {Value_unary(nodes, m, i)} :
        /\ nodes' = res.nodes
        /\ err' = res.exc
        /\ last' = Call(m, i, NoneOperand, res.result, FALSE)
        /\ UNCHANGED <<trace, calls, threads, sched>>

\* nodes[i].<m>(o): nodes[i] <op> o, or o <op> nodes[i] for a reflected method
Binary(N, m, i, o) ==
    /\ Len(nodes) + (IF o.k = "node" THEN 1 ELSE 2) <= N
    /\ ExactOperands(nodes, m, i, o)
    /\ \E res \in {Value_binary(nodes, m, i, o)} :
        /\ nodes' = res.nodes
        /\ err' = res.exc
        /\ last' = Call(m, i, o, res.result, FALSE)
        /\ UNCHANGED <<trace, calls, threads, sched>>

\* nodes[r].backward()
CallBackward(C, r) ==
    /\ Len(calls) < C
    /\ \E res \in {Value_backward(nodes, r)} :
        /\ nodes' = res.nodes
        /\ err' = res.exc
        /\ trace' = res.trace
        /\ calls' = Append(calls, r)
        /\ last' = Call("backward", r, NoneOperand, 0,
                         last.api = "backward" /\ last.self = r)
        /\ UNCHANGED <<threads, sched>>

\* Graphs over Add, Sub, Mul and Neg on integer leaves
LeafValues == {2, 3}
ArithmeticMethods == {"__add__", "__sub__", "__mul__"}

Next ==
    \/ \E v \in LeafValues : NewLeaf(MaxNodes, v)
    \/ \E i \in DOMAIN nodes : Unary(MaxNodes, "__neg__", i)
    \/ \E m \in ArithmeticMethods : \E i, j \in DOMAIN nodes :
          Binary(MaxNodes, m, i, NodeOperand(j))
    \/ \E r \in DOMAIN nodes : CallBackward(MaxCalls, r)

Spec == Init /\ [][Next]_vars

\* Every construction method, with literal and ill-typed operands
LeafValuesOps == {-1, 0, 2}
LiteralOperands ==
    {NumOperand(0), NumOperand(3), StrOperand("2"), StrOperand("abc"), NoneOperand}

NextOps ==
    \/ \E v \in LeafValuesOps : NewLeaf(MaxNodesOps, v)
    \/ \E m \in UnaryMethods : \E i \in DOMAIN nodes : Unary(MaxNodesOps, m, i)
    \/ \E m \in BinaryMethods : \E i \in DOMAIN nodes :
          \E o \in {NodeOperand(j) : j \in DOMAIN nodes} \cup LiteralOperands :
             Binary(MaxNodesOps, m, i, o)
    \/ \E r \in DOMAIN nodes : CallBackward(MaxCallsOps, r)

SpecOps == Init /\ [][NextOps]_vars

\* nodes[i].label = l
SetLabel(i, l) ==
    /\ nodes[i].label # l
    /\ nodes' = [nodes EXCEPT ![i].label = l]
    /\ err' = "none"
    /\ last' = Call("label", i, NoneOperand, 0, FALSE)
    /\ UNCHANGED <<trace, calls, threads, sched>>

\* Labelled graphs over Add and Mul, differentiated from several roots
LabelNames == {"x"}

NextLabels ==
    \/ \E v \in LeafValues : NewLeaf(MaxNodesLabels, v)
    \/ \E m \in {"__add__", "__mul__"} : \E i, j \in DOMAIN nodes :
          Binary(MaxNodesLabels, m, i, NodeOperand(j))
    \/ \E i \in DOMAIN nodes : \E l \in LabelNames : SetLabel(i, l)
    \/ \E r \in DOMAIN nodes : CallBackward(MaxCallsLabels, r)

SpecLabels == Init /\ [][NextLabels]_vars

(***************************************************************************)
(* Two backward() calls running in two threads of the host.  A thread is   *)
(* the frame of one call: its root, the order it built, the statement it   *)
(* is at (pc), the loop indices k (node) and j (operand), the contributions*)
(* its rule returned and the operand grad it loaded for parent.grad +=     *)
(* grad.  Every reset, the seed, every rule call, every load and every     *)
(* store of a grad is one step; nothing in backward() takes a lock.        *)
(* `sched` records the thread at its first and at its last step; `torn`    *)
(* tells that a store of the thread replaced a grad another thread had     *)
(* written since the load.                                                 *)
(***************************************************************************)
ThreadIds == {1, 2}

\* the frame of root.backward() once build_topo(self) has returned
Frame(ns, root) ==
    [root |-> root, topo |-> TopoOrder(ns, root), pc |-> "reset", k |-> 1, j |-> 0,
     grads |-> <<>>, acc |-> Num(0), torn |-> FALSE]

\* threading.Thread(target=r1.backward) and (target=r2.backward), both
\* started, on roots whose graphs share a node
Fork(r1, r2) ==
    /\ threads = <<>>
    /\ LET o1 == TopoOrder(nodes, r1)
           o2 == TopoOrder(nodes, r2)
       IN  {o1[k] : k \in DOMAIN o1} \cap {o2[k] : k \in DOMAIN o2} # {}
    /\ threads' = <<Frame(nodes, r1), Frame(nodes, r2)>>
    /\ last' = Call("fork", r1, NodeOperand(r2), 0, FALSE)
    /\ UNCHANGED <<nodes, err, trace, calls, sched>>

\* the thread's first step and its last step are recorded
Scheduled(t, pc2) ==
    LET began == IF threads[t].pc = "reset" /\ threads[t].k = 1
                 THEN Append(sched, t) ELSE sched
    IN  IF pc2 = "done" THEN Append(began, t) ELSE began

\* mutant: the loop body leaves node.grad as it is
ResetStep_skip(t) ==
    LET f == threads[t]
        pc2 == IF f.k = Len(f.topo) THEN "seed" ELSE "reset"
    IN  /\ f.pc = "reset"
        /\ nodes' = nodes
        /\ threads' = [threads EXCEPT ![t].k = f.k + 1, ![t].pc = pc2]
        /\ sched' = Scheduled(t, pc2)
        /\ UNCHANGED <<err, last, trace, calls>>

\* node.grad = 0.0 for the next node of topo
ResetStep(t) ==
    LET f == threads[t]
        pc2 == IF f.k = Len(f.topo) THEN "seed" ELSE "reset"
    IN  /\ f.pc = "reset"
        /\ nodes' = [nodes EXCEPT ![f.topo[f.k]].grad = Num(0)]
        /\ threads' = [threads EXCEPT ![t].k = f.k + 1, ![t].pc = pc2]
        /\ sched' = Scheduled(t, pc2)
        /\ UNCHANGED <<err, last, trace, calls>>

\* self.grad = 1.0
SeedStep(t) ==
    LET f == threads[t]
    IN  /\ f.pc = "seed"
        /\ nodes' = [nodes EXCEPT ![f.root].grad = Num(1)]
        /\ threads' = [threads EXCEPT ![t].pc = "walk", ![t].k = Len(f.topo)]
        /\ sched' = Scheduled(t, "walk")
        /\ UNCHANGED <<err, last, trace, calls>>

\* the head of the reverse loop for v = topo[k]: the rule reads v.grad and
\* the operand values; a leaf is passed over; after the last node the call
\* returns; a rule that raises ends the call
RuleStep(t) ==
    LET f == threads[t]
    IN  /\ f.pc = "walk"
        /\ IF f.k = 0
           THEN /\ threads' = [threads EXCEPT ![t].pc = "done"]
                /\ sched' = Scheduled(t, "done")
                /\ err' = err
           ELSE LET v == f.topo[f.k]
                    nd == nodes[v]
                IN  IF nd.op # None /\ nd.prev # <<>>
                    THEN \E res \in {Backward(nd.op, nd.grad, [i \in DOMAIN nd.prev |->
                                                         nodes[nd.prev[i]].value])} :
                           IF res.exc # "none"
                           THEN /\ threads' = [threads EXCEPT ![t].pc = "done"]
                                /\ sched' = Scheduled(t, "done")
                                /\ err' = res.exc
                           ELSE /\ threads' = [threads EXCEPT ![t].pc = "load",
                                                   ![t].grads = res.v, ![t].j = 1]
                                /\ sched' = Scheduled(t, "load")
                                /\ err' = err
                    ELSE /\ threads' = [threads EXCEPT ![t].k = f.k - 1]
                         /\ sched' = Scheduled(t, "walk")
                         /\ err' = err
        /\ UNCHANGED <<nodes, last, trace, calls>>

\* parent.grad += grad, first half: the grad of the j-th operand is loaded
LoadStep(t) ==
    LET f == threads[t]
        parent == nodes[f.topo[f.k]].prev[f.j]
    IN  /\ f.pc = "load"
        /\ threads' = [threads EXCEPT ![t].acc = nodes[parent].grad, ![t].pc = "store"]
        /\ sched' = Scheduled(t, "store")
        /\ UNCHANGED <<nodes, err, last, trace, calls>>

\* parent.grad += grad, second half: the sum is stored; then the next operand
\* of zip(v.prev, grads), or the next node
StoreStep(t) ==
    LET f == threads[t]
        prev == nodes[f.topo[f.k]].prev
        parent == prev[f.j]
        more == f.j < Len(prev) /\ f.j < Len(f.grads)
    IN  /\ f.pc = "store"
        /\ nodes' = [nodes EXCEPT ![parent].grad = NumAdd(f.acc, f.grads[f.j])]
        /\ threads' = [threads EXCEPT
                          ![t].torn = f.torn \/ nodes[parent].grad # f.acc,
                          ![t].pc = IF more THEN "load" ELSE "walk",
                          ![t].j = IF more THEN f.j + 1 ELSE 0,
                          ![t].k = IF more THEN f.k ELSE f.k - 1]
        /\ sched' = Scheduled(t, "walk")
        /\ UNCHANGED <<err, last, trace, calls>>

NextThreads ==
    \/ threads = <<>> /\ \E v \in LeafValues : NewLeaf(MaxNodesThreads, v)
    \/ threads = <<>> /\ \E m \in {"__add__", "__mul__"} : \E i, j \in DOMAIN nodes :
          Binary(MaxNodesThreads, m, i, NodeOperand(j))
    \/ \E r1, r2 \in DOMAIN nodes : Fork(r1, r2)
    \/ \E t \in DOMAIN threads : ResetStep(t)
    \/ \E t \in DOMAIN threads : SeedStep(t)
    \/ \E t \in DOMAIN threads : RuleStep(t)
    \/ \E t \in DOMAIN threads : LoadStep(t)
    \/ \E t \in DOMAIN threads : StoreStep(t)

SpecThreads == Init /\ [][NextThreads]_vars

(***************************************************************************)
(* Reference notions the properties are stated with                        *)
(***************************************************************************)
RECURSIVE Reach(_, _)
\* the nodes reachable from r through operand edges
Reach(ns, r) == {r} \cup UNION {Reach(ns, ns[r].prev[k]) : k \in DOMAIN ns[r].prev}

RECURSIVE Depth(_, _)
\* the number of nodes on the longest operand path from n down to a leaf
Depth(ns, n) ==
    IF ns[n].prev = <<>> THEN 1
    ELSE 1 + (CHOOSE d \in {Depth(ns, ns[n].prev[k]) : k \in DOMAIN ns[n].prev} :
                \A e \in {Depth(ns, ns[n].prev[k]) : k \in DOMAIN ns[n].prev} : e <= d)

\* the operand edges (c, k) with ns[c].prev[k] = n, c reachable from root
EdgesInto(ns, root, n) ==
    {e \in Reach(ns, root) \X {1, 2} :
        e[2] \in DOMAIN ns[e[1]].prev /\ ns[e[1]].prev[e[2]] = n}

\* d(node c)/d(its k-th operand) for Add, Sub, Mul and Neg
LocalDerivative(ns, c, k) ==
    CASE ns[c].op = "Add" -> Num(1)
      [] ns[c].op = "Sub" -> IF k = 1 THEN Num(1) ELSE Num(-1)
      [] ns[c].op = "Mul" -> ns[ns[c].prev[3 - k]].value
      [] ns[c].op = "Neg" -> Num(-1)

RECURSIVE SumOver(_, _, _)
\* the sum of f[e] over e in S
SumOver(S, f, acc) ==
    IF S = {} THEN acc
    ELSE LET e == CHOOSE x \in S : TRUE
         IN  SumOver(S \ {e}, f, NumAdd(acc, f[e]))

RECURSIVE Derivative(_, _, _)
\* d(root)/d(n): over all operand paths from root to n, the sum of the
\* products of the local derivatives along the path
Derivative(ns, root, n) ==
    IF n = root THEN Num(1)
    ELSE LET E == EdgesInto(ns, root, n)
         IN  SumOver(E, [e \in E |-> NumMul(Derivative(ns, root, e[1]),
                                            LocalDerivative(ns, e[1], e[2]))], Num(0))

\* the root of the most recent backward() call
LastRoot == calls[Len(calls)]

(***************************************************************************)
(* C1: once root.backward() has returned, and until the next backward(),   *)
(* every node reachable from root holds d(root)/d(node) in grad (the sum   *)
(* over all operand paths of the products of the local derivatives), and   *)
(* root.grad is 1.  Graphs over Add, Sub, Mul, Neg on integer leaves.      *)
(***************************************************************************)
C1_GradIsDerivative ==
    (calls # <<>> /\ err = "none") =>
        /\ nodes[LastRoot].grad = Num(1)
        /\ \A n \in Reach(nodes, LastRoot) :
              nodes[n].grad = Derivative(nodes, LastRoot, n)

\* z = x*y + x has been differentiated: x.grad = y.value + 1, y.grad = x.value
C1_Witness ==
    /\ last.api = "backward"
    /\ LET z == nodes[last.self]
       IN  /\ z.op = "Add"
           /\ nodes[z.prev[1]].op = "Mul"
           /\ LET x == nodes[z.prev[1]].prev[1]
                  y == nodes[z.prev[1]].prev[2]
              IN  /\ x # y
                  /\ z.prev[2] = x
                  /\ nodes[x].op = None /\ nodes[y].op = None
                  /\ nodes[x].value = Num(2) /\ nodes[y].value = Num(3)
                  /\ z.value = Num(8)
                  /\ nodes[x].grad = Num(4)
                  /\ nodes[y].grad = Num(2)

\* the positions of the trace holding an event of kind e on node n
Events(e, n) == {p \in DOMAIN trace : trace[p].e = e /\ trace[p].n = n}

\* what the backward rule of node c returns for its k-th operand, from the
\* grad c holds now
Contribution(ns, c, k) ==
    Backward(ns[c].op, ns[c].grad,
             [j \in DOMAIN ns[c].prev |-> ns[ns[c].prev[j]].value]).v[k]

(***************************************************************************)
(* C2: contributions are summed, never overwritten.  After y.backward()    *)
(* the grad of every node other than y is the sum of the contributions of  *)
(* all operand edges into it (one per consumer and per position in the     *)
(* consumer's operand list), each edge has added exactly once although the *)
(* node is reset (placed) once, and y = x*x leaves x.grad = 2 * x.value.   *)
(***************************************************************************)
C2_ContributionsSummed ==
    (calls # <<>> /\ err = "none") =>
        /\ \A n \in Reach(nodes, LastRoot) \ {LastRoot} :
              LET E == EdgesInto(nodes, LastRoot, n)
              IN  /\ nodes[n].grad =
                        SumOver(E, [e \in E |-> Contribution(nodes, e[1], e[2])], Num(0))
                  /\ Cardinality(Events("add", n)) = Cardinality(E)
                  /\ Cardinality(Events("reset", n)) = 1
        /\ LET y == nodes[LastRoot]
           IN  (y.op = "Mul" /\ y.prev[1] = y.prev[2]) =>
                  nodes[y.prev[1]].grad = NumMul(Num(2), nodes[y.prev[1]].value)

\* y = x*x with x = 3 has been differentiated: x.grad = 6, not 3
C2_Witness ==
    /\ last.api = "backward"
    /\ LET y == nodes[last.self]
       IN  /\ y.op = "Mul"
           /\ y.prev[1] = y.prev[2]
           /\ nodes[y.prev[1]].op = None
           /\ nodes[y.prev[1]].value = Num(3)
           /\ nodes[y.prev[1]].grad = Num(6)
           /\ Cardinality(Events("add", y.prev[1])) = 2

(***************************************************************************)
(* C3: a backward() that directly follows a backward() on the same root    *)
(* leaves every reachable node with the grad it had after the first call:  *)
(* the grad each node is reset from equals the grad it ends with.          *)
(***************************************************************************)
C3_BackwardTwiceSameGrads ==
    (last.api = "backward" /\ last.again /\ err = "none") =>
        /\ {trace[p].n : p \in {q \in DOMAIN trace : trace[q].e = "reset"}}
              = Reach(nodes, last.self)
        /\ \A p \in DOMAIN trace :
              trace[p].e = "reset" => trace[p].old = nodes[trace[p].n].grad

\* a second backward() in a row on a root with a non-root node of nonzero grad
C3_Witness ==
    /\ last.api = "backward"
    /\ last.again
    /\ \E n \in Reach(nodes, last.self) \ {last.self} :
          /\ nodes[n].grad # Num(0)
          /\ Cardinality(EdgesInto(nodes, last.self, n)) >= 2

(***************************************************************************)
(* C4: within one backward(root), when the backward rule of a node reads   *)
(* node.grad, every operand edge into the node from a consumer reachable   *)
(* from root has already added its contribution, and nothing writes        *)
(* node.grad after the read.  Every reachable node with an operation is    *)
(* read exactly once.                                                      *)
(***************************************************************************)
C4_GradFinalBeforeRead ==
    (calls # <<>> /\ err = "none") =>
        /\ \A v \in Reach(nodes, LastRoot) :
              nodes[v].op # None => Cardinality(Events("read", v)) = 1
        /\ \A p \in DOMAIN trace :
              trace[p].e = "read" =>
                 LET v == trace[p].n
                 IN  /\ \A q \in DOMAIN trace :
                           (q > p /\ trace[q].n = v) =>
                              trace[q].e \notin {"reset", "seed", "add"}
                     /\ \A c \in Reach(nodes, LastRoot) :
                           Cardinality({q \in 1..(p - 1) :
                                          /\ trace[q].e = "add"
                                          /\ trace[q].n = v
                                          /\ trace[q].from = c})
                             = Cardinality({k \in DOMAIN nodes[c].prev :
                                              nodes[c].prev[k] = v})

\* a graph of depth 4 in which a node with an operation feeds two consumers
C4_Witness ==
    /\ last.api = "backward"
    /\ Depth(nodes, last.self) >= 4
    /\ \E v \in Reach(nodes, last.self) :
          /\ Events("read", v) # {}
          /\ Cardinality({e[1] : e \in EdgesInto(nodes, last.self, v)}) >= 2

(***************************************************************************)
(* C5: a backward(r2) after a backward(r1) leaves no residue of r1's       *)
(* gradients: every node reachable from r2 is reset to 0 once, before the  *)
(* seed and before any accumulation, whatever grad it held, and ends with  *)
(* d(r2)/d(node).                                                          *)
(***************************************************************************)
C5_NoResidue ==
    (Len(calls) >= 2 /\ err = "none") =>
        /\ \A n \in Reach(nodes, LastRoot) :
              /\ Cardinality(Events("reset", n)) = 1
              /\ \A p \in DOMAIN trace :
                    trace[p].e \in {"seed", "add"} =>
                       \A q \in Events("reset", n) : q < p
              /\ nodes[n].grad = Derivative(nodes, LastRoot, n)
        /\ \A p \in DOMAIN trace :
              trace[p].e = "reset" => trace[p].n \in Reach(nodes, LastRoot)

\* backward(r2) after backward(r1), r1 # r2, found a shared ancestor holding a
\* nonzero grad from r1 and left it with a different one
C5_Witness ==
    /\ last.api = "backward"
    /\ Len(calls) = 2
    /\ calls[1] # calls[2]
    /\ \E p \in DOMAIN trace :
          /\ trace[p].e = "reset"
          /\ trace[p].n \in Reach(nodes, calls[1]) \cap Reach(nodes, calls[2])
          /\ trace[p].old # Num(0)
          /\ trace[p].old # nodes[trace[p].n].grad

\* The forward evaluation a construction call makes in state ns: the rule's
\* result on the operand values, for a call whose operand is a Value or
\* converts to a float.
ForwardOfCall(ns, c) ==
    IF c.api \in UnaryMethods
    THEN Forward(OpOf(c.api), <<ns[c.self].value>>)
    ELSE LET other == IF c.other.k = "node" THEN ns[c.other.i].value
                      ELSE FloatOf(c.other).v
             x == ns[c.self].value
         IN  IF c.api \in {"__rsub__", "__rtruediv__", "__rpow__"}
             THEN Forward(OpOf(c.api), <<other, x>>)
             ELSE Forward(OpOf(c.api), <<x, other>>)

IsConstruction(c) == c.api \in UnaryMethods \cup BinaryMethods

\* the call c reaches its forward evaluation: a unary call always does, a
\* binary call when its operand is a Value or converts to a float
ReachesForward(c) ==
    \/ c.api \in UnaryMethods
    \/ c.api \in BinaryMethods /\ (c.other.k = "node" \/ FloatOf(c.other).exc = "none")

(***************************************************************************)
(* C6: a construction call whose forward evaluation fails (log of a value  *)
(* <= 0, division by a zero value, ...) raises that failure to the caller, *)
(* returns no node, and leaves every existing node as it was.              *)
(***************************************************************************)
C6_FailedForwardBuildsNothing ==
    [][(/\ ReachesForward(last')
        /\ ForwardOfCall(nodes, last').exc # "none")
       => (/\ err' = ForwardOfCall(nodes, last').exc
           /\ last'.result = 0
           /\ nodes' = nodes)]_vars

\* log() of a leaf holding 0 or a negative value has raised
C6_Witness ==
    /\ nodes # <<>>
    /\ last.api = "log"
    /\ nodes[last.self].op = None
    /\ nodes[last.self].value.n <= 0
    /\ err = "ValueError"
    /\ last.result = 0

(***************************************************************************)
(* C7: for every Pow node whose base value is <= 0, base 0 and zero or     *)
(* negative exponents included, backward() returns without raising and the *)
(* contribution to the exponent operand's grad is exactly 0.               *)
(***************************************************************************)
C7_NonPositiveBaseContributesZero ==
    \A c \in DOMAIN nodes :
        (/\ last.api = "backward"
         /\ c \in Reach(nodes, last.self)
         /\ nodes[c].op = "Pow"
         /\ ~Positive(nodes[nodes[c].prev[1]].value))
        => (/\ err = "none"
            /\ Contribution(nodes, c, 2) = Num(0))

\* where a is the partial function's domain of definition on the rationals:
\* log on x > 0; tan everywhere (no rational is an odd multiple of pi/2);
\* cot and coth on x # 0 (0 is the only rational zero of sin and of sinh)
Undefined(m, x) ==
    CASE m = "log" -> x.n <= 0
      [] m = "tan" -> FALSE
      [] m = "cot" -> x.n = 0
      [] m = "coth" -> x.n = 0

(***************************************************************************)
(* C8: log(), tan(), cot() and coth() raise exactly when the function is   *)
(* undefined at the operand's value; the exception reaches the caller and  *)
(* no node is returned; at every other value the call returns a new node.  *)
(***************************************************************************)
C8_DomainErrorIffUndefined ==
    last.api \in {"log", "tan", "cot", "coth"} =>
        LET x == nodes[last.self].value
        IN  /\ (err # "none") <=> Undefined(last.api, x)
            /\ (err # "none") =>
                  /\ err \in {"ValueError", "ZeroDivisionError"}
                  /\ last.result = 0
            /\ (err = "none") =>
                  /\ last.result = Len(nodes)
                  /\ nodes[last.result].op = OpOf(last.api)
                  /\ nodes[last.result].prev = <<last.self>>

\* cot() of a node holding 0 has raised
C8_Witness ==
    /\ last.api = "cot"
    /\ nodes[last.self].value = Num(0)
    /\ err = "ZeroDivisionError"
    /\ last.result = 0

IsLiteral(o) == o.k \in {"num", "str"} /\ FloatOf(o).exc = "none"
Reflected == {"__radd__", "__rmul__", "__rsub__", "__rtruediv__", "__rpow__"}

\* c <op> x and x <op> c as numbers, for the operation of method m
Written(m, first, second) ==
    CASE OpOf(m) = "Add" -> NumAdd(first, second)
      [] OpOf(m) = "Mul" -> NumMul(first, second)
      [] OpOf(m) = "Sub" -> NumSub(first, second)
      [] OpOf(m) = "Div" -> NumDiv(first, second)
      [] OpOf(m) = "Pow" -> NumPow(first, second)

\* the state after a binary call c with a literal operand that returned: the
\* literal is a fresh leaf (grad 0, no operation, no operands) created just
\* before the result; a reflected call evaluates literal <op> self, and for
\* -, / and ** keeps the literal as the first operand
LiteralWrapped(ns, c) ==
    LET r == c.result
        w == c.result - 1
        lit == FloatOf(c.other).v
        x == ns[c.self].value
    IN  /\ r = Len(ns)
        /\ w > c.self
        /\ ns[w] = [value |-> lit, grad |-> Num(0), op |-> None, prev |-> <<>>,
                    label |-> None]
        /\ ns[r].op = OpOf(c.api)
        /\ ns[r].grad = Num(0)
        /\ IF c.api \in {"__rsub__", "__rtruediv__", "__rpow__"}
           THEN ns[r].prev = <<w, c.self>> /\ ns[r].value = Written(c.api, lit, x)
           ELSE ns[r].prev = <<c.self, w>> /\ ns[r].value = Written(c.api, x, lit)
        /\ c.api \in Reflected => ns[r].value = Written(c.api, lit, x)

\* d(first <op> second)/d(first) and /d(second) for the operation of m
OperandDerivative(m, k, first, second) ==
    Backward(OpOf(m), Num(1), <<first, second>>).v[k]

(***************************************************************************)
(* C9: a numeric literal on either side of a binary operator becomes a     *)
(* fresh leaf with grad 0 and no operation, and the written operand order  *)
(* is kept: c - x, c / x and c ** x have c as first operand and x as       *)
(* second, so that a backward() on the result gives x the second-operand   *)
(* derivative (c - x: x.grad = -1); c + x and c * x have the value and the *)
(* x.grad of x + c and x * c.                                              *)
(***************************************************************************)
C9_LiteralOperandOrder ==
    [][/\ (IsConstruction(last') /\ IsLiteral(last'.other) /\ err' = "none")
             => LiteralWrapped(nodes', last')
       /\ (/\ IsConstruction(last) /\ IsLiteral(last.other) /\ err = "none"
           /\ last'.api = "backward" /\ last'.self = last.result
           /\ err' = "none")
          => LET lit == FloatOf(last.other).v
                 x == nodes[last.self].value
             IN  /\ last.api \in {"__rsub__", "__rtruediv__", "__rpow__"} =>
                       nodes'[last.self].grad = OperandDerivative(last.api, 2, lit, x)
                 /\ last.api = "__rsub__" => nodes'[last.self].grad = Num(-1)
                 /\ last.api \in {"__radd__", "__rmul__"} =>
                       nodes'[last.self].grad = OperandDerivative(last.api, 1, x, lit)
                 /\ last.api = "__radd__" => nodes'[last.self].grad = Num(1)
                 /\ last.api = "__rmul__" => nodes'[last.self].grad = lit]_vars

\* 3 - x has been built and differentiated: operands (leaf 3, x), x.grad = -1
C9_Witness ==
    /\ last.api = "backward"
    /\ err = "none"
    /\ LET y == nodes[last.self]
       IN  /\ y.op = "Sub"
           /\ y.prev[1] = last.self - 1
           /\ y.prev[2] < y.prev[1]
           /\ nodes[y.prev[1]].op = None
           /\ nodes[y.prev[1]].value = Num(3)
           /\ y.value = NumSub(Num(3), nodes[y.prev[2]].value)
           /\ nodes[y.prev[2]].grad = Num(-1)
           /\ nodes[y.prev[1]].grad = Num(1)

(***************************************************************************)
(* C10: a binary operator given an operand that is neither a Value nor     *)
(* convertible to a float fails at once with an error to the caller,       *)
(* returns no node and leaves the existing nodes unchanged.                *)
(***************************************************************************)
NotANumber(o) == o.k = "none" \/ (o.k = "str" /\ o.v \notin {"2"})

C10_BadOperandRejected ==
    [][(last'.api \in BinaryMethods /\ NotANumber(last'.other))
       => (/\ err' \in {"TypeError", "ValueError"}
           /\ last'.result = 0
           /\ nodes' = nodes)]_vars

\* x <op> None has raised TypeError
C10_Witness ==
    /\ last.api \in BinaryMethods
    /\ last.other = NoneOperand
    /\ err = "TypeError"
    /\ last.result = 0
    /\ nodes # <<>>

(***************************************************************************)
(* C11: when a backward() call aborts because a backward rule raises in    *)
(* the reverse walk, every node keeps the value and the grad it had when   *)
(* that call started.                                                      *)
(***************************************************************************)
C11_AbortedBackwardKeepsGrads ==
    [][(last'.api = "backward" /\ err' # "none")
       => (/\ Len(nodes') = Len(nodes)
           /\ \A n \in DOMAIN nodes :
                 /\ nodes'[n].value = nodes[n].value
                 /\ nodes'[n].grad = nodes[n].grad)]_vars

\* the table of local derivatives times the upstream gradient g, one entry
\* per input in input order, for inputs a
RuleTable(op, g, a) ==
    CASE op = "Add" -> <<g, g>>
      [] op = "Sub" -> <<g, NumSub(Num(0), g)>>
      [] op = "Mul" -> <<NumMul(g, a[2]), NumMul(g, a[1])>>
      [] op = "Neg" -> <<NumSub(Num(0), g)>>

\* the values of the operands of node c, in operand order
OperandValues(ns, c) == [j \in DOMAIN ns[c].prev |-> ns[ns[c].prev[j]].value]

(***************************************************************************)
(* C12: the backward rule of Add, Sub, Mul and Neg returns one             *)
(* contribution per input, in input order, equal to the table's local      *)
(* derivative times the upstream gradient g (Add (g, g); Sub (g, -g); Mul  *)
(* (g*b, g*a); Neg (-g)), for g in -MaxGrad..MaxGrad and for the grad the  *)
(* node holds; and backward() adds the i-th contribution to the grad of    *)
(* the i-th operand, right after the rule has read the node's grad.        *)
(***************************************************************************)
C12_RuleTableInOperandOrder ==
    /\ \A c \in DOMAIN nodes :
          nodes[c].op # None =>
             \A g \in {Num(i) : i \in -MaxGrad..MaxGrad} \cup {nodes[c].grad} :
                LET r == Backward(nodes[c].op, g, OperandValues(nodes, c))
                IN  /\ r.exc = "none"
                    /\ Len(r.v) = Len(nodes[c].prev)
                    /\ r.v = RuleTable(nodes[c].op, g, OperandValues(nodes, c))
    /\ (calls # <<>> /\ err = "none") =>
          /\ \A n \in Reach(nodes, LastRoot) \ {LastRoot} :
                LET E == EdgesInto(nodes, LastRoot, n)
                IN  nodes[n].grad =
                       SumOver(E, [e \in E |->
                                     RuleTable(nodes[e[1]].op, nodes[e[1]].grad,
                                               OperandValues(nodes, e[1]))[e[2]]],
                               Num(0))
          /\ \A p \in DOMAIN trace :
                trace[p].e = "read" =>
                   \A i \in DOMAIN nodes[trace[p].n].prev :
                      /\ p + i \in DOMAIN trace
                      /\ trace[p + i] = [e |-> "add", n |-> nodes[trace[p].n].prev[i],
                                         from |-> trace[p].n]

\* z = x*y - x with x = 2, y = 3 has been differentiated: the product holds
\* 1, x holds y.value - 1 and y holds x.value
C12_Witness ==
    /\ last.api = "backward"
    /\ err = "none"
    /\ LET z == nodes[last.self]
       IN  /\ z.op = "Sub"
           /\ nodes[z.prev[1]].op = "Mul"
           /\ LET x == nodes[z.prev[1]].prev[1]
                  y == nodes[z.prev[1]].prev[2]
              IN  /\ z.prev[2] = x
                  /\ nodes[x].value = Num(2) /\ nodes[y].value = Num(3)
                  /\ nodes[z.prev[1]].grad = Num(1)
                  /\ nodes[x].grad = Num(2)
                  /\ nodes[y].grad = Num(2)

(***************************************************************************)
(* C13: the order backward(root) computes holds every node reachable from  *)
(* root through operand edges exactly once (also a node shared by several  *)
(* consumers or repeated in one operand list) and no other node, places    *)
(* every node after all of its operands, and ends with root.  It is the    *)
(* order in which the call resets the grads.                               *)
(***************************************************************************)
C13_TopoOrderOfReachable ==
    /\ \A r \in DOMAIN nodes :
          LET t == TopoOrder(nodes, r)
          IN  /\ {t[k] : k \in DOMAIN t} = Reach(nodes, r)
              /\ \A k, q \in DOMAIN t : t[k] = t[q] => k = q
              /\ \A k \in DOMAIN t : \A j \in DOMAIN nodes[t[k]].prev :
                    \E q \in 1..(k - 1) : t[q] = nodes[t[k]].prev[j]
              /\ t # <<>>
              /\ t[Len(t)] = r
    /\ last.api = "backward" =>
          LET t == TopoOrder(nodes, last.self)
          IN  /\ Len(trace) > Len(t)
              /\ \A k \in DOMAIN t : trace[k].e = "reset" /\ trace[k].n = t[k]
              /\ trace[Len(t) + 1].e = "seed"

\* backward() on b = (x*x) + x: x is repeated in one operand list and shared
\* by two consumers, and the order has three nodes
C13_Witness ==
    /\ last.api = "backward"
    /\ LET b == nodes[last.self]
       IN  /\ b.op = "Add"
           /\ nodes[b.prev[1]].op = "Mul"
           /\ nodes[b.prev[1]].prev[1] = b.prev[2]
           /\ nodes[b.prev[1]].prev[2] = b.prev[2]
           /\ nodes[b.prev[2]].op = None
           /\ Len(TopoOrder(nodes, last.self)) = 3
           /\ Cardinality(Events("reset", b.prev[2])) = 1

\* the number of inputs of each operation's forward rule
Arity(op) == IF op \in BinaryOps THEN 2 ELSE 1

(***************************************************************************)
(* C15: after any sequence of construction calls and backward() calls,     *)
(* every node has no operation iff it has no operands; a node with an      *)
(* operation has as many operands as the operation's arity, all of them    *)
(* nodes created before it, and its value is the operation's forward rule  *)
(* applied to the values of its operands.                                  *)
(***************************************************************************)
C15_NodesWellFormed ==
    \A n \in DOMAIN nodes :
       /\ (nodes[n].op = None) <=> (nodes[n].prev = <<>>)
       /\ nodes[n].op # None =>
             /\ nodes[n].op \in BinaryOps \cup UnaryOps
             /\ Len(nodes[n].prev) = Arity(nodes[n].op)
             /\ \A k \in DOMAIN nodes[n].prev : nodes[n].prev[k] \in 1..(n - 1)
             /\ Forward(nodes[n].op, OperandValues(nodes, n)) = Ok(nodes[n].value)

\* after a backward(), the full arena holds a unary node whose operand is a
\* binary node
C15_Witness ==
    /\ last.api = "backward"
    /\ Len(nodes) = MaxNodesOps
    /\ \E n \in DOMAIN nodes :
          /\ nodes[n].op \in UnaryOps
          /\ nodes[nodes[n].prev[1]].op \in BinaryOps

(***************************************************************************)
(* C16: backward(root) changes nothing but the grad of the nodes reachable *)
(* from root: no node is created, every node keeps its value, operation,   *)
(* operands and label, and every node not reachable from root (other       *)
(* consumers of root's ancestors included) keeps its grad.                 *)
(***************************************************************************)
C16_BackwardFrame ==
    [][(last'.api = "backward" /\ calls' = Append(calls, last'.self))
       => (/\ Len(nodes') = Len(nodes)
           /\ \A n \in DOMAIN nodes :
                 /\ nodes'[n].value = nodes[n].value
                 /\ nodes'[n].op = nodes[n].op
                 /\ nodes'[n].prev = nodes[n].prev
                 /\ nodes'[n].label = nodes[n].label
           /\ \A n \in DOMAIN nodes \ Reach(nodes, last'.self) :
                 nodes'[n].grad = nodes[n].grad)]_vars

\* a second backward() has returned while a labelled consumer of one of the
\* root's ancestors, not reachable from the root, still holds a nonzero grad
C16_Witness ==
    /\ last.api = "backward"
    /\ Len(calls) = 2
    /\ \E n \in DOMAIN nodes \ Reach(nodes, last.self) :
          /\ nodes[n].op # None
          /\ nodes[n].grad # Num(0)
          /\ nodes[n].label # None
          /\ Reach(nodes, n) \cap Reach(nodes, last.self) # {}
    /\ \E m \in Reach(nodes, last.self) :
          nodes[m].label # None /\ nodes[m].grad # Num(0)

\* both threads have left backward()
AllDone == threads # <<>> /\ \A t \in DOMAIN threads : threads[t].pc = "done"

\* the arena after a.backward() and then b.backward(), one after the other
Serial(ns, a, b) == Value_backward(Value_backward(ns, a).nodes, b).nodes

\* the nodes whose grad is the one neither serial order of the calls gives
NonSerialGrads ==
    {n \in DOMAIN nodes :
        /\ nodes[n].grad # Serial(nodes, threads[1].root, threads[2].root)[n].grad
        /\ nodes[n].grad # Serial(nodes, threads[2].root, threads[1].root)[n].grad}

(***************************************************************************)
(* C14: backward() takes no lock.  Two calls on roots whose graphs share a *)
(* node give the grads of a serial order whenever one call ends before the *)
(* other begins, in either order; interleaved at single grad resets and    *)
(* single parent.grad += grad steps they can end with a grad that neither  *)
(* serial order gives (the state C14_Witness).                             *)
(***************************************************************************)
C14_SerializedCallsAgree ==
    AllDone =>
        /\ sched = <<1, 1, 2, 2>> =>
               nodes = Serial(nodes, threads[1].root, threads[2].root)
        /\ sched = <<2, 2, 1, 1>> =>
               nodes = Serial(nodes, threads[2].root, threads[1].root)

\* both calls have returned, they overlapped, every += was carried out whole,
\* and a node reachable from both roots holds a grad of neither serial order
C14_Witness ==
    /\ AllDone
    /\ sched \in {<<1, 2, 1, 2>>, <<1, 2, 2, 1>>, <<2, 1, 1, 2>>, <<2, 1, 2, 1>>}
    /\ \A t \in DOMAIN threads : ~threads[t].torn
    /\ \E n \in NonSerialGrads :
          /\ n \in Reach(nodes, threads[1].root)
          /\ n \in Reach(nodes, threads[2].root)

====
